---- MODULE Spec2Model ----
(***************************************************************************)
(* A model of the pairing bot of src/bot.py: the three data files, the     *)
(* loaders, select_judges and the generate_pairing slash-command handler.  *)
(*                                                                         *)
(* A JSON object (a Python dict) is a sequence of [key, value] records in  *)
(* the order of the file, with pairwise distinct keys: json.load keeps the *)
(* insertion order, and iterating a dict yields its keys in that order.    *)
(* A conflict list is used by the code only through `in`, so it is kept as *)
(* the set of its members.  Competitor names are naturals, judge names and *)
(* identifiers are strings.                                                *)
(*                                                                         *)
(* interaction.response.send_message belongs to the discord library; it is *)
(* modelled as appending the message to `sent` and returning.              *)
(***************************************************************************)
EXTENDS Integers, Sequences, FiniteSets, TLC

VARIABLES
    rankings_csv,        \* rows of rankings.csv, in file order
    tournaments_json,    \* tournaments.json
    conflicts_json,      \* conflicts.json
    pc,                  \* position of the handler
    request,             \* [panel, tournament, conflicts] of the invocation
    rankings,            \* local of generate_pairing (line 127)
    tournaments_data,    \* local of generate_pairing (line 128)
    conflicts_data,      \* local of generate_pairing (line 129)
    eligible_opponents,  \* local (lines 150, 152)
    opponent,            \* local (line 162): <<>> until drawn, then <<row>>
    side,                \* local (line 163): "" until drawn
    opponent_side,       \* local (line 164)
    judges,              \* local (line 168): <<>> until sampled
    exc,                 \* the exception in flight or caught: <<>> or <<e>>
    sent,                \* the messages sent through interaction.response
    draws,               \* calls of random.choice / random.sample so far
    poolRead             \* whether tournaments_data[t]["judges"] was read

vars == <<rankings_csv, tournaments_json, conflicts_json, pc, request, rankings,
          tournaments_data, conflicts_data, eligible_opponents, opponent, side,
          opponent_side, judges, exc, sent, draws, poolRead>>

files == <<rankings_csv, tournaments_json, conflicts_json>>

locals == <<rankings, tournaments_data, conflicts_data, eligible_opponents,
            opponent, side, opponent_side, judges>>

----------------------------------------------------------------------------
(* Bounds of the model and constants of the program *)

\* rows read from rankings.csv: `if i >= 50: break`
TopN == 50

\* longest judge list of a tournament
MaxJudges == 3

\* rankings.csv files have 0..MaxShortRoster rows, or TopN..TopN+MaxExtraRows
MaxShortRoster == 1

MaxExtraRows == 1

JudgeNames == {"A", "B", "C"}

\* identifiers a user can type; "Emory" differs from "emory" only in case
TournamentIds == {"emory", "Emory", "toc"}

ConflictIds == {"om", "", "zz"}

----------------------------------------------------------------------------
(* dict and str primitives *)

\* str.lower() on the identifiers of the model
Lower(s) ==
    IF s = "Emory" THEN "emory" ELSE s

\* mutant: keys compared after lower-casing both sides
HasKeyLower(d, k) ==
    \E i \in DOMAIN d : Lower(d[i].key) = Lower(k)

\* `k in d`: exact match of the key
HasKey(d, k) ==
    \E i \in DOMAIN d : d[i].key = k

\* d[k], for a key of d
Get(d, k) ==
    d[CHOOSE i \in DOMAIN d : d[i].key = k].value

\* the order of Python's str comparison (by code point) on the identifiers
CodePointRank(s) ==
    CASE s = "" -> 0
      [] s = "Emory" -> 1
      [] s = "emory" -> 2
      [] s = "om" -> 3
      [] s = "toc" -> 4
      [] s = "zz" -> 5

IsSorted(ks) ==
    \A i, j \in DOMAIN ks : i < j => CodePointRank(ks[i]) <= CodePointRank(ks[j])

\* mutant: sorted(d), the keys in sorted order
KeysSorted(d) ==
    CHOOSE ks \in [DOMAIN d -> {d[i].key : i \in DOMAIN d}] :
        /\ IsSorted(ks)
        /\ \A i \in DOMAIN d : \E j \in DOMAIN d : ks[j] = d[i].key

\* iterating d, as ', '.join(d) does: the keys in insertion order
Keys(d) ==
    [i \in DOMAIN d |-> d[i].key]

\* truth value of a str: the empty string is false
Truthy(s) ==
    s # ""

----------------------------------------------------------------------------
(* The data files *)

\* a rankings.csv of n rows with the columns Rank, School, Name, Rating
RosterFile(n) ==
    [i \in 1..n |-> [Rank |-> i, School |-> "school", Name |-> i, Rating |-> "rating"]]

RosterFiles ==
    {RosterFile(n) : n \in (0..MaxShortRoster) \cup (TopN..(TopN + MaxExtraRows))}

\* "entries" of a tournament: absent (<<>>) or <<the set of the names listed>>;
\* the names are those of the first row, the last row read and the first row cut
EntriesOptions ==
    {<<>>} \cup {<<e>> : e \in SUBSET {1, TopN, TopN + 1}}

JudgeLists ==
    UNION {[1..n -> JudgeNames] : n \in 0..MaxJudges}

\* "judges" of a tournament: absent (<<>>) or <<the list>>
JudgesOptions ==
    {<<>>} \cup {<<j>> : j \in JudgeLists}

\* the value of one tournament: { "judges": [...], "entries": [...] }, each optional
TournamentEntry(jopt, eopt) ==
    LET D == (IF jopt = <<>> THEN {} ELSE {"judges"})
             \cup (IF eopt = <<>> THEN {} ELSE {"entries"})
    IN  [f \in D |-> IF f = "judges" THEN jopt[1] ELSE eopt[1]]

\* the orders in which the ids appear in tournaments.json
TournamentKeyOrders ==
    {<<"emory">>, <<"toc", "emory">>, <<"emory", "Emory">>}

\* the orders in which the ids appear in conflicts.json
ConflictKeyOrders ==
    {<<"om">>, <<"om", "">>}

TournamentsFile(ks, jopt, eopt) ==
    [i \in DOMAIN ks |-> [key |-> ks[i], value |-> TournamentEntry(jopt, eopt)]]

ConflictsFile(ks, excluded) ==
    [i \in DOMAIN ks |-> [key |-> ks[i], value |-> excluded]]

Requests ==
    [panel : BOOLEAN, tournament : TournamentIds, conflicts : ConflictIds]

----------------------------------------------------------------------------
(* load_rankings, select_judges *)

Min(a, b) ==
    IF a < b THEN a ELSE b

\* mutant: `if i > 50: break`, one row too many
load_rankings_off_by_one(csv) ==
    [i \in 1..Min(Len(csv), TopN + 1) |->
        [rank |-> csv[i].Rank, school |-> csv[i].School,
         name |-> csv[i].Name, rating |-> csv[i].Rating]]

\* load_rankings: the rows with index i < 50 (counted from 0), re-keyed
load_rankings(csv) ==
    [i \in 1..Min(Len(csv), TopN) |->
        [rank |-> csv[i].Rank, school |-> csv[i].School,
         name |-> csv[i].Name, rating |-> csv[i].Rating]]

\* [j for j in available_judges if j not in conflicted_judges]
Without(available_judges, conflicted_judges) ==
    LET keep(j) == j \notin conflicted_judges
    IN  SelectSeq(available_judges, keep)

\* select_judges up to its last line: the exception it raises, or the pool that
\* random.sample draws from.  at66 tells whether line 66 was executed.
select_judges(tdata, cdata, tournament, conflict_list, count) ==
    IF ~HasKey(tdata, tournament)
    THEN [raise |-> [type |-> "ValueError", what |-> "TournamentNotFound",
                     available |-> Keys(tdata)],
          at66 |-> FALSE]
    ELSE IF "judges" \notin DOMAIN Get(tdata, tournament)
    THEN [raise |-> [type |-> "KeyError", what |-> "judges"], at66 |-> TRUE]
    ELSE LET available_judges == Get(tdata, tournament).judges
             filtered ==
                 IF Truthy(conflict_list) /\ HasKey(cdata, conflict_list)
                 THEN Without(available_judges, Get(cdata, conflict_list))
                 ELSE available_judges
         IN  IF Len(filtered) < count
             THEN [raise |-> [type |-> "ValueError", what |-> "NotEnoughJudges",
                              need |-> count, have |-> Len(filtered)],
                   at66 |-> TRUE]
             ELSE [pool |-> filtered, at66 |-> TRUE]

\* random.sample(pool, k): k elements at pairwise distinct positions, in any order
Sample(pool, k) ==
    {[i \in 1..k |-> pool[p[i]]] :
        p \in {q \in [1..k -> DOMAIN pool] : \A a, b \in 1..k : a # b => q[a] # q[b]}}

\* mutant: the opponent is given the requester's side
OpponentSideSame(s) ==
    s

\* 'Neg' if side == 'Aff' else 'Aff'
OpponentSide(s) ==
    IF s = "Aff" THEN "Neg" ELSE "Aff"

\* 3 if panel else 1
JudgeCount(panel) ==
    IF panel THEN 3 ELSE 1

----------------------------------------------------------------------------
(* The state after construction *)

NoLocals ==
    /\ rankings = <<>>
    /\ tournaments_data = <<>>
    /\ conflicts_data = <<>>
    /\ eligible_opponents = <<>>
    /\ opponent = <<>>
    /\ side = ""
    /\ opponent_side = ""
    /\ judges = <<>>

\* files that vary the judge pool, the conflict lists and the catalogs' keys
JudgeFiles ==
    /\ rankings_csv = RosterFile(1)
    /\ \E ks \in TournamentKeyOrders, jopt \in JudgesOptions :
           tournaments_json = TournamentsFile(ks, jopt, <<>>)
    /\ \E ks \in ConflictKeyOrders, excluded \in SUBSET JudgeNames :
           conflicts_json = ConflictsFile(ks, excluded)

\* files that vary the roster and the tournament's entries
RosterFamily ==
    /\ rankings_csv \in RosterFiles
    /\ \E eopt \in EntriesOptions :
           tournaments_json = TournamentsFile(<<"emory">>, <<(<<"A", "B", "C">>)>>, eopt)
    /\ conflicts_json = ConflictsFile(<<"om">>, {"B"})

Init ==
    /\ (JudgeFiles \/ RosterFamily)
    /\ pc = "idle"
    /\ request = [panel |-> FALSE, tournament |-> "emory", conflicts |-> "om"]
    /\ NoLocals
    /\ exc = <<>>
    /\ sent = <<>>
    /\ draws = 0
    /\ poolRead = FALSE

----------------------------------------------------------------------------
(* generate_pairing *)

\* the command is invoked: a new run of the handler, with its own locals
Invoke ==
    /\ pc \in {"idle", "returned"}
    /\ \E r \in Requests : request' = r
    /\ pc' = "load"
    /\ rankings' = <<>>
    /\ tournaments_data' = <<>>
    /\ conflicts_data' = <<>>
    /\ eligible_opponents' = <<>>
    /\ opponent' = <<>>
    /\ side' = ""
    /\ opponent_side' = ""
    /\ judges' = <<>>
    /\ exc' = <<>>
    /\ sent' = <<>>
    /\ draws' = 0
    /\ poolRead' = FALSE
    /\ UNCHANGED files

Readable ==
    {"all", "no rankings.csv", "no tournaments.json", "no conflicts.json"}

\* lines 127-129: the three files are read in order; open() or the parser may raise
Load ==
    /\ pc = "load"
    /\ \E fault \in Readable :
        /\ rankings' = IF fault = "no rankings.csv" THEN <<>>
                       ELSE load_rankings(rankings_csv)
        /\ tournaments_data' = IF fault \in {"no rankings.csv", "no tournaments.json"}
                               THEN <<>> ELSE tournaments_json
        /\ conflicts_data' = IF fault = "all" THEN conflicts_json ELSE <<>>
        /\ exc' = IF fault = "all" THEN <<>>
                  ELSE <<[type |-> "OSError", what |-> fault]>>
        /\ pc' = IF fault = "all" THEN "validate_tournament" ELSE "except"
    /\ UNCHANGED <<files, request, eligible_opponents, opponent, side,
                   opponent_side, judges, sent, draws, poolRead>>

\* mutant: the message is sent but the `return` is missing
ValidateTournamentNoReturn ==
    /\ pc = "validate_tournament"
    /\ IF ~HasKey(tournaments_data, request.tournament)
       THEN sent' = Append(sent, [kind |-> "InvalidTournament",
                                  available |-> Keys(tournaments_data)])
       ELSE sent' = sent
    /\ pc' = "validate_conflicts"
    /\ UNCHANGED <<files, request, locals, exc, draws, poolRead>>

\* lines 132-137
ValidateTournament ==
    /\ pc = "validate_tournament"
    /\ IF ~HasKey(tournaments_data, request.tournament)
       THEN /\ sent' = Append(sent, [kind |-> "InvalidTournament",
                                     available |-> Keys(tournaments_data)])
            /\ pc' = "returned"
       ELSE /\ sent' = sent
            /\ pc' = "validate_conflicts"
    /\ UNCHANGED <<files, request, locals, exc, draws, poolRead>>

\* mutant: an empty conflict selector is let through as "no filtering"
ValidateConflictsLenient ==
    /\ pc = "validate_conflicts"
    /\ IF Truthy(request.conflicts) /\ ~HasKey(conflicts_data, request.conflicts)
       THEN /\ sent' = Append(sent, [kind |-> "InvalidConflictList",
                                     available |-> Keys(conflicts_data)])
            /\ pc' = "returned"
       ELSE /\ sent' = sent
            /\ pc' = "filter"
    /\ UNCHANGED <<files, request, locals, exc, draws, poolRead>>

\* lines 139-144
ValidateConflicts ==
    /\ pc = "validate_conflicts"
    /\ IF ~HasKey(conflicts_data, request.conflicts)
       THEN /\ sent' = Append(sent, [kind |-> "InvalidConflictList",
                                     available |-> Keys(conflicts_data)])
            /\ pc' = "returned"
       ELSE /\ sent' = sent
            /\ pc' = "filter"
    /\ UNCHANGED <<files, request, locals, exc, draws, poolRead>>

\* lines 147-152: the rows named in "entries"; the bare except turns the KeyError
\* of a tournament without "entries" into the full roster
EligibleOpponents(rows, entry) ==
    IF "entries" \in DOMAIN entry
    THEN LET listed(r) == r.name \in entry.entries
         IN  SelectSeq(rows, listed)
    ELSE rows

\* lines 146-159
FilterEntries ==
    /\ pc = "filter"
    /\ eligible_opponents' =
           EligibleOpponents(rankings, Get(tournaments_data, request.tournament))
    /\ IF eligible_opponents' = <<>>
       THEN /\ sent' = Append(sent, [kind |-> "NoEligibleOpponents"])
            /\ pc' = "returned"
       ELSE /\ sent' = sent
            /\ pc' = "pair"
    /\ UNCHANGED <<files, request, rankings, tournaments_data, conflicts_data,
                   opponent, side, opponent_side, judges, exc, draws, poolRead>>

\* lines 162-164: two calls of random.choice
Pair ==
    /\ pc = "pair"
    /\ \E i \in DOMAIN eligible_opponents : opponent' = <<eligible_opponents[i]>>
    /\ \E s \in {"Aff", "Neg"} :
        /\ side' = s
        /\ opponent_side' = OpponentSide(s)
    /\ draws' = draws + 2
    /\ pc' = "judges"
    /\ UNCHANGED <<files, request, rankings, tournaments_data, conflicts_data,
                   eligible_opponents, judges, exc, sent, poolRead>>

\* lines 167-168: select_judges raises, or returns a sample of the filtered pool
SelectJudges ==
    /\ pc = "judges"
    /\ LET r == select_judges(tournaments_data, conflicts_data, request.tournament,
                              request.conflicts, JudgeCount(request.panel))
       IN  /\ poolRead' = r.at66
           /\ IF "raise" \in DOMAIN r
              THEN /\ exc' = <<r.raise>>
                   /\ judges' = judges
                   /\ draws' = draws
                   /\ pc' = "except"
              ELSE /\ exc' = exc
                   /\ judges' \in Sample(r.pool, JudgeCount(request.panel))
                   /\ draws' = draws + 1
                   /\ pc' = "embed"
    /\ UNCHANGED <<files, request, rankings, tournaments_data, conflicts_data,
                   eligible_opponents, opponent, side, opponent_side, sent>>

\* lines 171-183: the embed names the requester under their side, the opponent
\* under the other side, and the judges
SendEmbed ==
    /\ pc = "embed"
    /\ sent' = Append(sent, [kind |-> "Pairing",
                             side |-> side,
                             opponent_side |-> opponent_side,
                             opponent |-> opponent[1].name,
                             label |-> IF request.panel THEN "Judges" ELSE "Judge",
                             judges |-> judges])
    /\ pc' = "returned"
    /\ UNCHANGED <<files, request, locals, exc, draws, poolRead>>

\* mutant: the exception is printed and raised again
HandleExceptionReraise ==
    /\ pc = "except"
    /\ pc' = "raised"
    /\ UNCHANGED <<files, request, locals, exc, sent, draws, poolRead>>

\* lines 185-190: any Exception of the try block is reported to the user
HandleException ==
    /\ pc = "except"
    /\ sent' = Append(sent, [kind |-> "Error", text |-> exc[1]])
    /\ pc' = "returned"
    /\ UNCHANGED <<files, request, locals, exc, draws, poolRead>>

Next ==
    \/ Invoke
    \/ Load
    \/ ValidateTournament
    \/ ValidateConflicts
    \/ FilterEntries
    \/ Pair
    \/ SelectJudges
    \/ SendEmbed
    \/ HandleException

Spec ==
    Init /\ [][Next]_vars

----------------------------------------------------------------------------
(* Vocabulary of the properties *)

\* the three files were read: the handler is past line 129
Loaded ==
    \/ pc \in {"validate_tournament", "validate_conflicts", "filter", "pair",
               "judges", "embed"}
    \/ /\ pc \in {"except", "returned", "raised"}
       /\ (exc = <<>> \/ exc[1].type # "OSError")

Returned ==
    pc = "returned"

\* the handler returned after sending the embed of a pairing
PairingSent ==
    /\ Returned
    /\ Len(sent) = 1
    /\ sent[1].kind = "Pairing"

\* the request names a key of tournaments.json / conflicts.json, letter for letter
TournamentListed ==
    \E i \in DOMAIN tournaments_json : tournaments_json[i].key = request.tournament

ConflictsListed ==
    \E i \in DOMAIN conflicts_json : conflicts_json[i].key = request.conflicts

\* the entry of the requested tournament and the requested conflict list
RequestedEntry ==
    tournaments_json[CHOOSE i \in DOMAIN tournaments_json :
                        tournaments_json[i].key = request.tournament].value

RequestedConflicts ==
    conflicts_json[CHOOSE i \in DOMAIN conflicts_json :
                      conflicts_json[i].key = request.conflicts].value

\* the rows of rankings.csv that the handler may use: the first TopN
RosterRows ==
    1..Min(Len(rankings_csv), TopN)

SeqToSet(q) ==
    {q[i] : i \in DOMAIN q}

----------------------------------------------------------------------------
(* C1 *)

\* C1: in every successful pairing, no judge returned is a member of the
\* selected conflict list, whenever that list is non-empty.
C1_JudgesAvoidConflicts ==
    (PairingSent /\ ConflictsListed /\ RequestedConflicts # {})
        => SeqToSet(sent[1].judges) \cap RequestedConflicts = {}

(* C2 *)

\* C2: a successful pairing has exactly 3 judges with pairwise distinct names
\* when panel is true, and exactly 1 judge when panel is false.
C2_PanelOfThreeDistinct ==
    PairingSent =>
        IF request.panel
        THEN /\ Len(sent[1].judges) = 3
             /\ Cardinality(SeqToSet(sent[1].judges)) = 3
        ELSE Len(sent[1].judges) = 1

(* C3 *)

\* C3: with a tournament id that is no key of the tournament catalog, the
\* handler makes no random draw, never reads a judge pool, never goes past the
\* tournament validation, and returns after sending InvalidTournament only,
\* whatever the conflicts and panel parameters are.
C3_UnknownTournamentRejectedFirst ==
    (Loaded /\ ~TournamentListed) =>
        /\ draws = 0
        /\ ~poolRead
        /\ opponent = <<>> /\ side = "" /\ judges = <<>>
        /\ pc \in {"validate_tournament", "returned"}
        /\ pc = "validate_tournament" => sent = <<>>
        /\ pc = "returned" => /\ Len(sent) = 1
                              /\ sent[1].kind = "InvalidTournament"

\* C3 witness: an unknown tournament with an unknown conflict list and a panel
\* was rejected as InvalidTournament.
C3_Witness ==
    /\ Returned /\ Loaded
    /\ ~TournamentListed /\ ~ConflictsListed /\ request.panel
    /\ Len(sent) = 1 /\ sent[1].kind = "InvalidTournament"

(* C4 *)

\* C4: the opponent of a successful pairing is one of the first 50 rows of
\* rankings.csv and, if the tournament defines entries, is named in them; a
\* validated request whose tournament defines entries naming none of those
\* rows draws no opponent and returns NoEligibleOpponents.
C4_OpponentFromEligibleRoster ==
    /\ PairingSent =>
        /\ \E i \in RosterRows :
              /\ opponent[1].rank = rankings_csv[i].Rank
              /\ opponent[1].name = rankings_csv[i].Name
        /\ sent[1].opponent = opponent[1].name
        /\ "entries" \in DOMAIN RequestedEntry
              => sent[1].opponent \in RequestedEntry.entries
    /\ ( /\ Loaded /\ TournamentListed /\ ConflictsListed
         /\ "entries" \in DOMAIN RequestedEntry
         /\ \A i \in RosterRows : rankings_csv[i].Name \notin RequestedEntry.entries )
        => /\ opponent = <<>> /\ draws = 0
           /\ pc \in {"validate_tournament", "validate_conflicts", "filter", "returned"}
           /\ pc = "returned" => sent = <<[kind |-> "NoEligibleOpponents"]>>

\* C4 witness: from a roster longer than 50 rows and a tournament with entries,
\* the last row read was drawn as the opponent.
C4_Witness ==
    /\ PairingSent
    /\ Len(rankings_csv) > TopN
    /\ "entries" \in DOMAIN RequestedEntry
    /\ opponent[1].rank = TopN

(* C5 *)

\* the judges of the requested tournament that are not in the requested
\* conflict list
C5_FilteredPool ==
    Without(RequestedEntry.judges, RequestedConflicts)

\* C5: once judge selection has run on a known tournament and conflict list,
\* the handler fails with InsufficientJudges exactly when fewer judges remain
\* after conflict filtering than are required; the error carries the required
\* count and the size of the filtered pool; otherwise judges are selected.
C5_InsufficientIffFilteredPoolSmall ==
    ( /\ pc \in {"embed", "except", "returned"} /\ draws >= 2
      /\ TournamentListed /\ ConflictsListed
      /\ "judges" \in DOMAIN RequestedEntry )
        => IF Len(C5_FilteredPool) < JudgeCount(request.panel)
           THEN exc = <<[type |-> "ValueError", what |-> "NotEnoughJudges",
                         need |-> JudgeCount(request.panel),
                         have |-> Len(C5_FilteredPool)]>>
           ELSE exc = <<>> /\ Len(judges) = JudgeCount(request.panel)

(* C6 *)

\* C6: with a known tournament and a conflict-list id that is no key of the
\* conflict catalog (the empty string included), the handler draws nothing,
\* reads no judge pool, never goes past the conflict validation, and returns
\* after sending InvalidConflictList only.
C6_UnknownConflictListRejected ==
    (Loaded /\ TournamentListed /\ ~ConflictsListed) =>
        /\ draws = 0
        /\ ~poolRead
        /\ opponent = <<>> /\ side = "" /\ judges = <<>>
        /\ pc \in {"validate_tournament", "validate_conflicts", "returned"}
        /\ pc # "returned" => sent = <<>>
        /\ pc = "returned" => /\ Len(sent) = 1
                              /\ sent[1].kind = "InvalidConflictList"

\* C6 witness: the empty conflict selector, not a key, was rejected.
C6_Witness ==
    /\ Returned /\ Loaded
    /\ TournamentListed /\ ~ConflictsListed /\ request.conflicts = ""
    /\ Len(sent) = 1 /\ sent[1].kind = "InvalidConflictList"

(* C7 *)

\* C7: the sides shown in a successful pairing are each Aff or Neg and differ:
\* the opponent has Neg when the requester has Aff, and Aff when the requester has Neg.
C7_SidesComplementary ==
    /\ side # "" =>
        /\ side \in {"Aff", "Neg"}
        /\ opponent_side \in {"Aff", "Neg"}
        /\ opponent_side # side
    /\ PairingSent =>
        /\ sent[1].side = side
        /\ sent[1].side = "Aff" => sent[1].opponent_side = "Neg"
        /\ sent[1].side = "Neg" => sent[1].opponent_side = "Aff"

\* C7 witness: a pairing was sent with the requester on Neg.
C7_Witness ==
    /\ PairingSent
    /\ sent[1].side = "Neg"
    /\ sent[1].opponent_side = "Aff"

(* C8 *)

\* C8 as stated: the identifiers listed by InvalidTournament and by
\* InvalidConflictList are in sorted order.
C8_AvailableSorted ==
    (Returned /\ Len(sent) = 1
        /\ sent[1].kind \in {"InvalidTournament", "InvalidConflictList"})
        => IsSorted(sent[1].available)

\* C8 amended: InvalidTournament lists every tournament id, and
\* InvalidConflictList every conflict-list id, once each in the order in which
\* the ids appear in the source catalog.
C8_AvailableInFileOrder ==
    /\ (Returned /\ Len(sent) = 1 /\ sent[1].kind = "InvalidTournament")
        => sent[1].available
               = [i \in DOMAIN tournaments_json |-> tournaments_json[i].key]
    /\ (Returned /\ Len(sent) = 1 /\ sent[1].kind = "InvalidConflictList")
        => sent[1].available
               = [i \in DOMAIN conflicts_json |-> conflicts_json[i].key]

\* C8 witness: a validation error listed two ids in file order, which is not
\* the sorted order.
C8_Witness ==
    /\ Returned /\ Len(sent) = 1
    /\ sent[1].kind = "InvalidTournament"
    /\ sent[1].available = <<"toc", "emory">>

(* C9 *)

\* C9 as stated: a request whose tournament id equals a catalog key after
\* lower-casing both is not rejected with InvalidTournament.
C9_CaseInsensitiveLookup ==
    ( /\ Returned /\ Loaded /\ Len(sent) = 1
      /\ \E i \in DOMAIN tournaments_json :
            Lower(tournaments_json[i].key) = Lower(request.tournament) )
        => sent[1].kind # "InvalidTournament"

\* C9 amended: the lookup is an exact, case-sensitive match: past the
\* tournament validation, the request was rejected with InvalidTournament
\* exactly when no catalog key is identical to its tournament id, also when a
\* key equals it after lower-casing.
C9_ExactLookup ==
    (Loaded /\ pc # "validate_tournament") =>
        (TournamentListed <=>
            ~(Returned /\ Len(sent) = 1 /\ sent[1].kind = "InvalidTournament"))

\* C9 witness: "Emory" was rejected although "emory" is a key.
C9_Witness ==
    /\ Returned /\ Loaded
    /\ request.tournament = "Emory"
    /\ ~TournamentListed
    /\ \E i \in DOMAIN tournaments_json : tournaments_json[i].key = "emory"
    /\ Len(sent) = 1 /\ sent[1].kind = "InvalidTournament"

(* C10 *)

\* C10: no exception leaves the handler; every invocation returns after
\* exactly one message; an exception raised in the try block is reported as
\* an error message; and a pairing is sent only by an invocation in which
\* nothing failed.
C10_FailuresReportedNotRaised ==
    /\ pc # "raised"
    /\ pc = "except" => (exc # <<>> /\ sent = <<>>)
    /\ Returned =>
        /\ Len(sent) = 1
        /\ exc # <<>> => sent[1] = [kind |-> "Error", text |-> exc[1]]
        /\ sent[1].kind = "Pairing" =>
              /\ exc = <<>>
              /\ Loaded /\ TournamentListed /\ ConflictsListed
              /\ eligible_opponents # <<>>
              /\ Len(judges) = JudgeCount(request.panel)
        /\ ~Loaded => sent[1].kind = "Error"

\* C10 witness: an unexpected exception (the KeyError of a tournament without
\* "judges") was reported as an error message and the handler returned.
C10_Witness ==
    /\ Returned
    /\ exc # <<>> /\ exc[1].type = "KeyError"
    /\ sent = <<[kind |-> "Error", text |-> exc[1]]>>

====
